---- MODULE Spec2Model ----
(***************************************************************************)
(* Model of Inventarios (desktop application Inventarios.py and the        *)
(* companion REST service "API REST.py").  The state is the SQLite store   *)
(* (tables locales, usuarios, productos, movimientos and the AUTOINCREMENT *)
(* counters), the wall clock that stamps movimientos.fecha, the desktop    *)
(* process (login window / running session / closed) and the Treeview      *)
(* snapshots the handlers read their selection from.                       *)
(*                                                                         *)
(* Numbers: weights are grams, volumes millilitres, densities g/ml.  The   *)
(* input sets below are chosen so that (peso_total - peso_envase)/densidad *)
(* is exact, so integer arithmetic computes what the floating point code   *)
(* computes.  minimo_inventario is a fraction in the store; the model      *)
(* keeps it in hundredths, so the handler's "/ 100" maps an entry of n     *)
(* percent to n hundredths.                                                *)
(*                                                                         *)
(* Columns that no handler ever reads in a condition (direccion, telefono, *)
(* marca, tipo of a product, the display name of a user) are left out.     *)
(***************************************************************************)
EXTENDS Integers, FiniteSets, Sequences, TLC

VARIABLES locales, usuarios, productos, movimientos, seq, reloj,
          fase, sesion, current_page,
          tree_inventario, tree_productos, tree_locales, tree_usuarios,
          locales_usuarios_data, ultimo, respuesta, procesos

db == <<locales, usuarios, productos, movimientos, seq>>
ui == <<fase, sesion, current_page, tree_inventario, tree_productos,
        tree_locales, tree_usuarios, locales_usuarios_data>>
vars == <<locales, usuarios, productos, movimientos, seq, reloj,
          fase, sesion, current_page,
          tree_inventario, tree_productos, tree_locales, tree_usuarios,
          locales_usuarios_data, ultimo, respuesta, procesos>>

(***************************************************************************)
(* Bounds of the exploration.                                              *)
(***************************************************************************)
MaxLocales == 2
MaxUsuarios == 2
MaxProductos == 2
MaxMovimientos == 2
MaxReloj == 1

(***************************************************************************)
(* Values.                                                                 *)
(***************************************************************************)
NULL == 0
NoNumerico == -999
NaN == -998
NoSel == 0

Roles == {"admin", "gerente", "empleado"}
TiposMovimiento == {"entrada", "salida", "ajuste"}
NombresLocal == {"Local Principal", "Sucursal"}
Usernames == {"admin", "ana"}
Passwords == {"admin123"}
NombresProducto == {"ron", "vodka"}

EntradasDensidad == {NoNumerico, 0, 1, 2, 3}
EntradasCapacidad == {0, 4}
EntradasPesoEnvase == {0, 2}
EntradasMinimo == {NaN, 0, 20, 120}
EntradasPeso == {NoNumerico, 0, 6}

(* Seconds elapsed on the wall clock between the previous INSERT into
   movimientos and the present one (CURRENT_TIMESTAMP has a resolution of
   one second); reloj is the time of the latest INSERT. *)
Lapsos == {0, 1}

NOTA_MANUAL == "Registro manual"
NOTA_AGREGADA == "Botella completa agregada"
NOTA_RETIRADA == "Botella completa retirada"

Min(S) == CHOOSE x \in S : \A y \in S : x <= y
Max(S) == CHOOSE x \in S : \A y \in S : x >= y

RECURSIVE SumaSobre(_, _)
SumaSobre(f, S) ==
    IF S = {} THEN 0
    ELSE LET x == CHOOSE y \in S : TRUE
         IN  f[x] + SumaSobre(f, S \ {x})

NoSesion == [user_id |-> 0, user_role |-> "", local_id |-> 0]
(* ultimo: the message box the latest handler ended with (which handler, which
   outcome); Nada when it showed none. *)
Nada == [op |-> "", res |-> ""]
(* respuesta: what the latest query put on the screen (desktop) or sent back
   (REST service): the rows, the count of low products, the HTTP status.  A
   row names the product and the movement it was built from. *)
SinRespuesta ==
    [op |-> "", filas |-> {}, grafico |-> {}, bajos |-> 0, codigo |-> 0,
     usuario |-> NoSesion, error |-> ""]

(* procesos: the desktop processes that work on the store at the same time
   as one another, statement by statement (each execute_query is one
   committed statement).  pc is the statement the process is at, arbol the
   rows of its inventory list, id_prod and capacidad the locals of the
   handler it is in. *)
Procesos == {1, 2}
ProcesoCerrado ==
    [pc |-> "cerrado", sesion |-> NoSesion, arbol |-> {}, id_prod |-> NULL, capacidad |-> 0]
SinProcesos == [i \in Procesos |-> ProcesoCerrado]

(***************************************************************************)
(* LicorDB.create_admin_user: the default location and the admin user are  *)
(* created when no user named admin exists.                                *)
(***************************************************************************)
AdminAusente_siempre(us) == TRUE

AdminAusente(us) == \A u \in DOMAIN us : us[u].username # "admin"

LocalPrincipal(ls) ==
    LET S == {l \in DOMAIN ls : ls[l].nombre = "Local Principal"}
    IN  IF S = {} THEN NULL ELSE Min(S)

Extender(f, k, v) == [x \in DOMAIN f \cup {k} |-> IF x = k THEN v ELSE f[x]]
Quitar(f, S) == [x \in DOMAIN f \ S |-> f[x]]

create_admin_user_locales(ls, us, sq) ==
    IF AdminAusente(us) /\ LocalPrincipal(ls) = NULL
    THEN Extender(ls, sq.locales + 1, [nombre |-> "Local Principal", activo |-> 1])
    ELSE ls

create_admin_user_usuarios(ls, us, sq) ==
    IF AdminAusente(us)
    THEN Extender(us, sq.usuarios + 1,
                  [username |-> "admin", password |-> "admin123", rol |-> "admin",
                   local_id |-> IF LocalPrincipal(ls) = NULL THEN sq.locales + 1
                                ELSE LocalPrincipal(ls),
                   activo |-> 1])
    ELSE us

create_admin_user_seq(ls, us, sq) ==
    IF AdminAusente(us)
    THEN [sq EXCEPT !.usuarios = @ + 1,
                    !.locales = IF LocalPrincipal(ls) = NULL THEN @ + 1 ELSE @]
    ELSE sq

SinFilas == [x \in {} |-> 0]
SeqCero == [locales |-> 0, usuarios |-> 0, productos |-> 0, movimientos |-> 0]

Init ==
    /\ locales = create_admin_user_locales(SinFilas, SinFilas, SeqCero)
    /\ usuarios = create_admin_user_usuarios(SinFilas, SinFilas, SeqCero)
    /\ seq = create_admin_user_seq(SinFilas, SinFilas, SeqCero)
    /\ productos = SinFilas
    /\ movimientos = SinFilas
    /\ reloj = 0
    /\ fase = "login"
    /\ sesion = NoSesion
    /\ current_page = ""
    /\ tree_inventario = {}
    /\ tree_productos = {}
    /\ tree_locales = {}
    /\ tree_usuarios = {}
    /\ locales_usuarios_data = {}
    /\ ultimo = Nada
    /\ respuesta = SinRespuesta
    /\ procesos = SinProcesos


(***************************************************************************)
(* List loaders of InventarioApp.  A Treeview is modelled by the rows it   *)
(* holds; a row of the inventory list shows nombre and botellas and no id, *)
(* so `fila` records which product the row was built from.                 *)
(***************************************************************************)
Visibles(prods, ses) ==
    {p \in DOMAIN prods : ses.user_role = "admin" \/ prods[p].local_id = ses.local_id}

actualizar_inventario(prods, ses) ==
    {[fila |-> p, nombre |-> prods[p].nombre, botellas |-> prods[p].botellas_completas] :
        p \in Visibles(prods, ses)}

actualizar_lista_productos(prods, ses) == Visibles(prods, ses)

actualizar_lista_locales(ls) == DOMAIN ls

actualizar_lista_usuarios(us) == DOMAIN us

cargar_locales_usuarios(ls) == DOMAIN ls

(* LoginWindow.cargar_locales: the active locations offered at login. *)
cargar_locales(ls) == {l \in DOMAIN ls : ls[l].activo = 1}

Paginas_todas(rol) ==
    {"inventario", "productos", "movimientos", "reportes", "admin_locales", "admin_usuarios"}

Paginas(rol) ==
    {"inventario", "productos", "movimientos", "reportes"}
        \cup (IF rol = "admin" THEN {"admin_locales", "admin_usuarios"} ELSE {})

(***************************************************************************)
(* The process: __main__ builds LicorDB (create_admin_user) and shows the  *)
(* login window; a successful validar_login builds InventarioApp; on_close *)
(* and the login window's Salir end the process.                           *)
(***************************************************************************)
main ==
    /\ fase = "cerrado"
    /\ AdminAusente(usuarios) => seq.usuarios < MaxUsuarios
    /\ (AdminAusente(usuarios) /\ LocalPrincipal(locales) = NULL) => seq.locales < MaxLocales
    /\ locales' = create_admin_user_locales(locales, usuarios, seq)
    /\ usuarios' = create_admin_user_usuarios(locales, usuarios, seq)
    /\ seq' = create_admin_user_seq(locales, usuarios, seq)
    /\ fase' = "login"
    /\ procesos' = procesos
    /\ respuesta' = SinRespuesta
    /\ ultimo' = Nada
    /\ UNCHANGED <<productos, movimientos, reloj, sesion, current_page,
                   tree_inventario, tree_productos, tree_locales, tree_usuarios,
                   locales_usuarios_data>>

mensaje_rechazo_detallado(username, password, local_id) ==
    IF \A u \in DOMAIN usuarios : usuarios[u].username # username
    THEN "usuario desconocido"
    ELSE "credenciales"

(* The one message of the else branch of validar_login: "Credenciales
   incorrectas o no tiene acceso a este local". *)
mensaje_rechazo(username, password, local_id) == "credenciales"

CredencialesValidas_inactivos(username, password, local_id) ==
    {u \in DOMAIN usuarios :
        /\ usuarios[u].username = username
        /\ usuarios[u].password = password
        /\ (usuarios[u].local_id = local_id \/ usuarios[u].rol = "admin")}

CredencialesValidas(username, password, local_id) ==
    {u \in DOMAIN usuarios :
        /\ usuarios[u].username = username
        /\ usuarios[u].password = password
        /\ (usuarios[u].local_id = local_id \/ usuarios[u].rol = "admin")
        /\ usuarios[u].activo = 1}

validar_login(username, password, local_id) ==
    /\ fase = "login"
    /\ IF username = "" \/ password = "" \/ local_id = NoSel
       THEN /\ procesos' = procesos
            /\ respuesta' = SinRespuesta
            /\ ultimo' = [op |-> "validar_login", res |-> "campos"]
            /\ UNCHANGED <<db, reloj, ui>>
       ELSE IF CredencialesValidas(username, password, local_id) # {}
       THEN LET u == Min(CredencialesValidas(username, password, local_id))
                ses == [user_id |-> u, user_role |-> usuarios[u].rol, local_id |-> local_id]
            IN  /\ fase' = "app"
                /\ sesion' = ses
                /\ current_page' = "inventario"
                /\ tree_inventario' = actualizar_inventario(productos, ses)
                /\ tree_productos' = actualizar_lista_productos(productos, ses)
                /\ tree_locales' = {}
                /\ tree_usuarios' = {}
                /\ locales_usuarios_data' =
                       IF ses.user_role = "admin" THEN cargar_locales_usuarios(locales) ELSE {}
                /\ procesos' = procesos
                /\ respuesta' = SinRespuesta
                /\ ultimo' = Nada
                /\ UNCHANGED <<db, reloj>>
       ELSE /\ procesos' = procesos
            /\ respuesta' = SinRespuesta
            /\ ultimo' = [op |-> "validar_login",
                           res |-> mensaje_rechazo(username, password, local_id)]
            /\ UNCHANGED <<db, reloj, ui>>

on_close ==
    /\ fase \in {"login", "app"}
    /\ fase' = "cerrado"
    /\ sesion' = NoSesion
    /\ current_page' = ""
    /\ tree_inventario' = {}
    /\ tree_productos' = {}
    /\ tree_locales' = {}
    /\ tree_usuarios' = {}
    /\ locales_usuarios_data' = {}
    /\ procesos' = procesos
    /\ respuesta' = SinRespuesta
    /\ ultimo' = Nada
    /\ UNCHANGED <<db, reloj>>

show_page(page_name) ==
    /\ fase = "app"
    /\ page_name \in Paginas(sesion.user_role)
    /\ current_page' = page_name
    /\ tree_inventario' = IF page_name = "inventario"
                          THEN actualizar_inventario(productos, sesion) ELSE tree_inventario
    /\ tree_productos' = IF page_name = "productos"
                         THEN actualizar_lista_productos(productos, sesion) ELSE tree_productos
    /\ tree_locales' = IF page_name = "admin_locales"
                       THEN actualizar_lista_locales(locales) ELSE tree_locales
    /\ tree_usuarios' = IF page_name = "admin_usuarios"
                        THEN actualizar_lista_usuarios(usuarios) ELSE tree_usuarios
    /\ procesos' = procesos
    /\ respuesta' = SinRespuesta
    /\ ultimo' = Nada
    /\ UNCHANGED <<db, reloj, fase, sesion, locales_usuarios_data>>

(***************************************************************************)
(* Administration pages (created for the admin role only).                 *)
(***************************************************************************)
guardar_local(sel, nombre, activo) ==
    /\ fase = "app" /\ current_page = "admin_locales"
    /\ sel \in tree_locales \cup {NoSel}
    /\ IF nombre = ""
       THEN /\ procesos' = procesos
            /\ respuesta' = SinRespuesta
            /\ ultimo' = [op |-> "guardar_local", res |-> "rechazado"]
            /\ UNCHANGED <<db, reloj, ui>>
       ELSE /\ sel = NoSel => seq.locales < MaxLocales
            /\ locales' =
                 IF sel # NoSel
                 THEN [l \in DOMAIN locales |->
                         IF l = sel THEN [nombre |-> nombre, activo |-> activo] ELSE locales[l]]
                 ELSE Extender(locales, seq.locales + 1, [nombre |-> nombre, activo |-> activo])
            /\ seq' = IF sel # NoSel THEN seq ELSE [seq EXCEPT !.locales = @ + 1]
            /\ tree_locales' = actualizar_lista_locales(locales')
            /\ locales_usuarios_data' = cargar_locales_usuarios(locales')
            /\ procesos' = procesos
            /\ respuesta' = SinRespuesta
            /\ ultimo' = [op |-> "guardar_local", res |-> "ok"]
            /\ UNCHANGED <<usuarios, productos, movimientos, reloj, fase, sesion,
                           current_page, tree_inventario, tree_productos, tree_usuarios>>

(* usuarios.username is UNIQUE: a clash raises sqlite3.IntegrityError out of
   the handler, before the commit and before the lists are refreshed. *)
UsernameOcupado(username, salvo) ==
    \E u \in DOMAIN usuarios : u # salvo /\ usuarios[u].username = username

guardar_usuario(sel, username, password, rol, local_id, activo) ==
    /\ fase = "app" /\ current_page = "admin_usuarios"
    /\ sel \in tree_usuarios \cup {NoSel}
    /\ local_id \in locales_usuarios_data \cup {NULL}
    /\ IF username = "" \/ password = "" \/ rol = ""
       THEN /\ procesos' = procesos
            /\ respuesta' = SinRespuesta
            /\ ultimo' = [op |-> "guardar_usuario", res |-> "rechazado"]
            /\ UNCHANGED <<db, reloj, ui>>
       ELSE IF UsernameOcupado(username, sel)
       THEN /\ procesos' = procesos
            /\ respuesta' = SinRespuesta
            /\ ultimo' = [op |-> "guardar_usuario", res |-> "excepcion"]
            /\ UNCHANGED <<db, reloj, ui>>
       ELSE LET fila == [username |-> username, password |-> password, rol |-> rol,
                         local_id |-> local_id, activo |-> activo]
            IN  /\ sel = NoSel => seq.usuarios < MaxUsuarios
                /\ usuarios' =
                     IF sel # NoSel
                     THEN [u \in DOMAIN usuarios |-> IF u = sel THEN fila ELSE usuarios[u]]
                     ELSE Extender(usuarios, seq.usuarios + 1, fila)
                /\ seq' = IF sel # NoSel THEN seq ELSE [seq EXCEPT !.usuarios = @ + 1]
                /\ tree_usuarios' = actualizar_lista_usuarios(usuarios')
                /\ procesos' = procesos
                /\ respuesta' = SinRespuesta
                /\ ultimo' = [op |-> "guardar_usuario", res |-> "ok"]
                /\ UNCHANGED <<locales, productos, movimientos, reloj, fase, sesion,
                               current_page, tree_inventario, tree_productos, tree_locales,
                               locales_usuarios_data>>

tiene_productos_nunca(id_local) == FALSE

tiene_productos(id_local) ==
    Cardinality({p \in DOMAIN productos : productos[p].local_id = id_local}) > 0

tiene_usuarios(id_local) ==
    Cardinality({u \in DOMAIN usuarios : usuarios[u].local_id = id_local}) > 0

es_propio_usuario_nunca(id_usuario) == FALSE

(* "if id_usuario == self.user_id" *)
es_propio_usuario(id_usuario) == id_usuario = sesion.user_id

eliminar_local(sel, confirmacion) ==
    /\ fase = "app" /\ current_page = "admin_locales"
    /\ sel \in tree_locales \cup {NoSel}
    /\ IF sel = NoSel
       THEN /\ procesos' = procesos
            /\ respuesta' = SinRespuesta
            /\ ultimo' = [op |-> "eliminar_local", res |-> "sin seleccion"]
            /\ UNCHANGED <<db, reloj, ui>>
       ELSE IF tiene_productos(sel)
       THEN /\ procesos' = procesos
            /\ respuesta' = SinRespuesta
            /\ ultimo' = [op |-> "eliminar_local", res |-> "tiene productos"]
            /\ UNCHANGED <<db, reloj, ui>>
       ELSE IF tiene_usuarios(sel)
       THEN /\ procesos' = procesos
            /\ respuesta' = SinRespuesta
            /\ ultimo' = [op |-> "eliminar_local", res |-> "tiene usuarios"]
            /\ UNCHANGED <<db, reloj, ui>>
       ELSE IF ~confirmacion
       THEN /\ procesos' = procesos
            /\ respuesta' = SinRespuesta
            /\ ultimo' = [op |-> "eliminar_local", res |-> "cancelado"]
            /\ UNCHANGED <<db, reloj, ui>>
       ELSE /\ locales' = Quitar(locales, {sel})
            /\ tree_locales' = actualizar_lista_locales(locales')
            /\ locales_usuarios_data' = cargar_locales_usuarios(locales')
            /\ procesos' = procesos
            /\ respuesta' = SinRespuesta
            /\ ultimo' = [op |-> "eliminar_local", res |-> "ok"]
            /\ UNCHANGED <<usuarios, productos, movimientos, seq, reloj, fase, sesion,
                           current_page, tree_inventario, tree_productos, tree_usuarios>>

eliminar_usuario(sel, confirmacion) ==
    /\ fase = "app" /\ current_page = "admin_usuarios"
    /\ sel \in tree_usuarios \cup {NoSel}
    /\ IF sel = NoSel
       THEN /\ procesos' = procesos
            /\ respuesta' = SinRespuesta
            /\ ultimo' = [op |-> "eliminar_usuario", res |-> "sin seleccion"]
            /\ UNCHANGED <<db, reloj, ui>>
       ELSE IF es_propio_usuario(sel)
       THEN /\ procesos' = procesos
            /\ respuesta' = SinRespuesta
            /\ ultimo' = [op |-> "eliminar_usuario", res |-> "a si mismo"]
            /\ UNCHANGED <<db, reloj, ui>>
       ELSE IF ~confirmacion
       THEN /\ procesos' = procesos
            /\ respuesta' = SinRespuesta
            /\ ultimo' = [op |-> "eliminar_usuario", res |-> "cancelado"]
            /\ UNCHANGED <<db, reloj, ui>>
       ELSE /\ movimientos' =
                 Quitar(movimientos, {m \in DOMAIN movimientos : movimientos[m].user_id = sel})
            /\ usuarios' = Quitar(usuarios, {sel})
            /\ tree_usuarios' = actualizar_lista_usuarios(usuarios')
            /\ procesos' = procesos
            /\ respuesta' = SinRespuesta
            /\ ultimo' = [op |-> "eliminar_usuario", res |-> "ok"]
            /\ UNCHANGED <<locales, productos, seq, reloj, fase, sesion, current_page,
                           tree_inventario, tree_productos, tree_locales,
                           locales_usuarios_data>>


(***************************************************************************)
(* Products page.                                                          *)
(***************************************************************************)
EsNumero_siempre(entrada) == TRUE

(* float(entry.get()) raises ValueError: the entry is not a number.  The
   entry "nan" is a float for float(); every comparison with it is False. *)
EsNumero(entrada) == entrada # NoNumerico

DatosInvalidos(densidad, capacidad, peso_envase, minimo) ==
    \/ ~EsNumero(densidad) \/ ~EsNumero(capacidad)
    \/ ~EsNumero(peso_envase) \/ ~EsNumero(minimo)
    \/ densidad # NaN /\ (densidad <= 0 \/ densidad > 2)
    \/ capacidad # NaN /\ capacidad <= 0
    \/ peso_envase # NaN /\ peso_envase <= 0
    \/ minimo # NaN /\ (minimo <= 0 \/ minimo > 100)

(* The sqlite3 module binds a float nan as NULL: a NOT NULL column refuses
   it (IntegrityError out of the handler, before the commit), a nullable
   column stores NULL. *)
NoNuloViolado(densidad, capacidad, peso_envase) ==
    densidad = NaN \/ capacidad = NaN \/ peso_envase = NaN

sqlite_real(x) == IF x = NaN THEN NULL ELSE x

guardar_producto(sel, nombre, densidad, capacidad, peso_envase, minimo) ==
    /\ fase = "app" /\ current_page = "productos"
    /\ sel \in tree_productos \cup {NoSel}
    /\ IF sesion.local_id = NULL \/ DatosInvalidos(densidad, capacidad, peso_envase, minimo)
       THEN /\ procesos' = procesos
            /\ respuesta' = SinRespuesta
            /\ ultimo' = [op |-> "guardar_producto", res |-> "rechazado"]
            /\ UNCHANGED <<db, reloj, ui>>
       ELSE IF NoNuloViolado(densidad, capacidad, peso_envase)
       THEN /\ procesos' = procesos
            /\ respuesta' = SinRespuesta
            /\ ultimo' = [op |-> "guardar_producto", res |-> "excepcion"]
            /\ UNCHANGED <<db, reloj, ui>>
       ELSE /\ sel = NoSel => seq.productos < MaxProductos
            /\ productos' =
                 IF sel # NoSel
                 THEN [p \in DOMAIN productos |->
                         IF p = sel
                         THEN [productos[p] EXCEPT !.nombre = nombre, !.densidad = densidad,
                                                   !.capacidad_ml = capacidad,
                                                   !.peso_envase = peso_envase,
                                                   !.minimo_inventario = sqlite_real(minimo)]
                         ELSE productos[p]]
                 ELSE Extender(productos, seq.productos + 1,
                               [local_id |-> sesion.local_id, nombre |-> nombre,
                                densidad |-> densidad, capacidad_ml |-> capacidad,
                                peso_envase |-> peso_envase, activo |-> 1,
                                botellas_completas |-> 0,
                                minimo_inventario |-> sqlite_real(minimo)])
            /\ seq' = IF sel # NoSel THEN seq ELSE [seq EXCEPT !.productos = @ + 1]
            /\ tree_productos' = actualizar_lista_productos(productos', sesion)
            /\ tree_inventario' = actualizar_inventario(productos', sesion)
            /\ procesos' = procesos
            /\ respuesta' = SinRespuesta
            /\ ultimo' = [op |-> "guardar_producto", res |-> "ok"]
            /\ UNCHANGED <<locales, usuarios, movimientos, reloj, fase, sesion, current_page,
                           tree_locales, tree_usuarios, locales_usuarios_data>>

eliminar_producto(sel, confirmacion) ==
    /\ fase = "app" /\ current_page = "productos"
    /\ sel \in tree_productos \cup {NoSel}
    /\ IF sel = NoSel
       THEN /\ procesos' = procesos
            /\ respuesta' = SinRespuesta
            /\ ultimo' = [op |-> "eliminar_producto", res |-> "sin seleccion"]
            /\ UNCHANGED <<db, reloj, ui>>
       ELSE IF ~confirmacion
       THEN /\ procesos' = procesos
            /\ respuesta' = SinRespuesta
            /\ ultimo' = [op |-> "eliminar_producto", res |-> "cancelado"]
            /\ UNCHANGED <<db, reloj, ui>>
       ELSE /\ movimientos' =
                 Quitar(movimientos, {m \in DOMAIN movimientos : movimientos[m].producto_id = sel})
            /\ productos' = Quitar(productos, {sel})
            /\ tree_productos' = actualizar_lista_productos(productos', sesion)
            /\ tree_inventario' = actualizar_inventario(productos', sesion)
            /\ procesos' = procesos
            /\ respuesta' = SinRespuesta
            /\ ultimo' = [op |-> "eliminar_producto", res |-> "ok"]
            /\ UNCHANGED <<locales, usuarios, seq, reloj, fase, sesion, current_page,
                           tree_locales, tree_usuarios, locales_usuarios_data>>

(***************************************************************************)
(* Inventory page.  The handlers take the NAME shown in the selected row   *)
(* and look the product up with "WHERE nombre = ?" and fetch_one; SQLite   *)
(* scans productos in rowid order, so the row with the lowest id answers.  *)
(***************************************************************************)
ProductoPorNombre(nombre) ==
    LET S == {p \in DOMAIN productos : productos[p].nombre = nombre}
    IN  IF S = {} THEN NULL ELSE Min(S)

Fila(sel) == CHOOSE f \in tree_inventario : f.fila = sel

FilasInventario == {f.fila : f \in tree_inventario}

(* The subquery (SELECT SUM(cantidad_ml) FROM movimientos WHERE             *)
(* producto_id = p.id) of actualizar_inventario, actualizar_grafico_        *)
(* inventario and mostrar_detalles_producto: <<>> is SQL NULL (no row).     *)
MovimientosDe(movs, p) == {m \in DOMAIN movs : movs[m].producto_id = p}

total_ml_ultima_lectura(movs, p) ==
    IF MovimientosDe(movs, p) = {} THEN <<>>
    ELSE <<movs[Max(MovimientosDe(movs, p))].cantidad_ml>>

total_ml(movs, p) ==
    IF MovimientosDe(movs, p) = {} THEN <<>>
    ELSE <<SumaSobre([m \in DOMAIN movs |-> movs[m].cantidad_ml], MovimientosDe(movs, p))>>

(* "SELECT cantidad_ml FROM movimientos WHERE producto_id = ? ORDER BY fecha *)
(* DESC LIMIT 1": fecha has one-second resolution and SQLite keeps, among   *)
(* the rows with the latest fecha, the first one it scanned (lowest id).    *)
ultimo_ml(movs, p) ==
    IF MovimientosDe(movs, p) = {} THEN <<>>
    ELSE LET fmax == Max({movs[m].fecha : m \in MovimientosDe(movs, p)})
             m0 == Min({m \in MovimientosDe(movs, p) : movs[m].fecha = fmax})
         IN  <<movs[m0].cantidad_ml>>

calcular_volumen(peso_total, peso_envase, densidad) ==
    (peso_total - peso_envase) \div densidad

clasificar_mayor_o_igual(volumen_ml, ultimo_row) ==
    IF volumen_ml < 0 THEN "ajuste"
    ELSE IF ultimo_row # <<>>
         THEN (IF volumen_ml - ultimo_row[1] >= 0 THEN "entrada" ELSE "salida")
         ELSE "entrada"

clasificar_sin_ajuste(volumen_ml, ultimo_row) ==
    IF ultimo_row # <<>>
    THEN (IF volumen_ml - ultimo_row[1] > 0 THEN "entrada" ELSE "salida")
    ELSE "entrada"

clasificar(volumen_ml, ultimo_row) ==
    IF volumen_ml < 0 THEN "ajuste"
    ELSE IF ultimo_row # <<>>
         THEN (IF volumen_ml - ultimo_row[1] > 0 THEN "entrada" ELSE "salida")
         ELSE "entrada"

Insertar_sobre_ultimo(movs, fila) == Extender(movs, Max(DOMAIN movs \cup {1}), fila)

(* INSERT INTO movimientos: AUTOINCREMENT gives the row a fresh id. *)
Insertar(movs, fila) == Extender(movs, seq.movimientos + 1, fila)

ajuste_cancelado_nunca(volumen_ml, confirmacion) == FALSE

(* "if volumen_ml < 0: if not messagebox.askyesno(...): return" *)
ajuste_cancelado(volumen_ml, confirmacion) == volumen_ml < 0 /\ ~confirmacion

sin_botellas_estricto(botellas) == botellas < 0

(* "if botellas <= 0", botellas being the value shown in the selected row. *)
sin_botellas(botellas) == botellas <= 0

registrar_peso(sel, entry_peso, confirmacion, dt) ==
    /\ fase = "app" /\ current_page = "inventario"
    /\ sel \in FilasInventario \cup {NoSel}
    /\ IF sel = NoSel
       THEN /\ procesos' = procesos
            /\ respuesta' = SinRespuesta
            /\ ultimo' = [op |-> "registrar_peso", res |-> "sin seleccion"]
            /\ UNCHANGED <<db, reloj, ui>>
       ELSE IF ~EsNumero(entry_peso)
       THEN /\ procesos' = procesos
            /\ respuesta' = SinRespuesta
            /\ ultimo' = [op |-> "registrar_peso", res |-> "invalido"]
            /\ UNCHANGED <<db, reloj, ui>>
       ELSE IF ProductoPorNombre(Fila(sel).nombre) = NULL
       THEN /\ procesos' = procesos
            /\ respuesta' = SinRespuesta
            /\ ultimo' = [op |-> "registrar_peso", res |-> "no encontrado"]
            /\ UNCHANGED <<db, reloj, ui>>
       ELSE LET id_prod == ProductoPorNombre(Fila(sel).nombre)
                volumen_ml == calcular_volumen(entry_peso, productos[id_prod].peso_envase,
                                               productos[id_prod].densidad)
            IN  IF ajuste_cancelado(volumen_ml, confirmacion)
                THEN /\ procesos' = procesos
                     /\ respuesta' = SinRespuesta
                     /\ ultimo' = [op |-> "registrar_peso", res |-> "cancelado"]
                     /\ UNCHANGED <<db, reloj, ui>>
                ELSE /\ seq.movimientos < MaxMovimientos /\ reloj + dt <= MaxReloj
                     /\ movimientos' = Insertar(movimientos,
                            [producto_id |-> id_prod, user_id |-> sesion.user_id,
                             tipo |-> clasificar(volumen_ml, ultimo_ml(movimientos, id_prod)),
                             cantidad_ml |-> volumen_ml, peso_bruto |-> <<entry_peso>>,
                             notas |-> NOTA_MANUAL, fecha |-> reloj + dt])
                     /\ seq' = [seq EXCEPT !.movimientos = @ + 1]
                     /\ tree_inventario' = actualizar_inventario(productos, sesion)
                     /\ procesos' = procesos
                     /\ respuesta' = SinRespuesta
                     /\ ultimo' = [op |-> "registrar_peso", res |-> "ok"]
                     /\ reloj' = reloj + dt
                     /\ UNCHANGED <<locales, usuarios, productos, fase, sesion,
                                    current_page, tree_productos, tree_locales, tree_usuarios,
                                    locales_usuarios_data>>

SumarBotella_sin_efecto(prods, id_prod, delta) == prods

SumarBotella(prods, id_prod, delta) ==
    [p \in DOMAIN prods |->
        IF p = id_prod
        THEN [prods[p] EXCEPT !.botellas_completas = @ + delta]
        ELSE prods[p]]

agregar_botella_completa(sel, dt) ==
    /\ fase = "app" /\ current_page = "inventario"
    /\ sel \in FilasInventario \cup {NoSel}
    /\ IF sel = NoSel
       THEN /\ procesos' = procesos
            /\ respuesta' = SinRespuesta
            /\ ultimo' = [op |-> "agregar_botella_completa", res |-> "sin seleccion"]
            /\ UNCHANGED <<db, reloj, ui>>
       ELSE IF ProductoPorNombre(Fila(sel).nombre) = NULL
       THEN /\ procesos' = procesos
            /\ respuesta' = SinRespuesta
            /\ ultimo' = [op |-> "agregar_botella_completa", res |-> "no encontrado"]
            /\ UNCHANGED <<db, reloj, ui>>
       ELSE LET id_prod == ProductoPorNombre(Fila(sel).nombre)
            IN  /\ seq.movimientos < MaxMovimientos /\ reloj + dt <= MaxReloj
                /\ productos' = SumarBotella(productos, id_prod, 1)
                /\ movimientos' = Insertar(movimientos,
                       [producto_id |-> id_prod, user_id |-> sesion.user_id,
                        tipo |-> "entrada", cantidad_ml |-> productos[id_prod].capacidad_ml,
                        peso_bruto |-> <<>>, notas |-> NOTA_AGREGADA, fecha |-> reloj + dt])
                /\ seq' = [seq EXCEPT !.movimientos = @ + 1]
                /\ tree_inventario' = actualizar_inventario(productos', sesion)
                /\ procesos' = procesos
                /\ respuesta' = SinRespuesta
                /\ ultimo' = [op |-> "agregar_botella_completa", res |-> "ok"]
                /\ reloj' = reloj + dt
                /\ UNCHANGED <<locales, usuarios, fase, sesion, current_page,
                               tree_productos, tree_locales, tree_usuarios,
                               locales_usuarios_data>>

quitar_botella_completa(sel, dt) ==
    /\ fase = "app" /\ current_page = "inventario"
    /\ sel \in FilasInventario \cup {NoSel}
    /\ IF sel = NoSel
       THEN /\ procesos' = procesos
            /\ respuesta' = SinRespuesta
            /\ ultimo' = [op |-> "quitar_botella_completa", res |-> "sin seleccion"]
            /\ UNCHANGED <<db, reloj, ui>>
       ELSE IF sin_botellas(Fila(sel).botellas)
       THEN /\ procesos' = procesos
            /\ respuesta' = SinRespuesta
            /\ ultimo' = [op |-> "quitar_botella_completa", res |-> "sin botellas"]
            /\ UNCHANGED <<db, reloj, ui>>
       ELSE IF ProductoPorNombre(Fila(sel).nombre) = NULL
       THEN /\ procesos' = procesos
            /\ respuesta' = SinRespuesta
            /\ ultimo' = [op |-> "quitar_botella_completa", res |-> "no encontrado"]
            /\ UNCHANGED <<db, reloj, ui>>
       ELSE LET id_prod == ProductoPorNombre(Fila(sel).nombre)
            IN  /\ seq.movimientos < MaxMovimientos /\ reloj + dt <= MaxReloj
                /\ productos' = SumarBotella(productos, id_prod, -1)
                /\ movimientos' = Insertar(movimientos,
                       [producto_id |-> id_prod, user_id |-> sesion.user_id,
                        tipo |-> "salida", cantidad_ml |-> productos[id_prod].capacidad_ml,
                        peso_bruto |-> <<>>, notas |-> NOTA_RETIRADA, fecha |-> reloj + dt])
                /\ seq' = [seq EXCEPT !.movimientos = @ + 1]
                /\ tree_inventario' = actualizar_inventario(productos', sesion)
                /\ procesos' = procesos
                /\ respuesta' = SinRespuesta
                /\ ultimo' = [op |-> "quitar_botella_completa", res |-> "ok"]
                /\ reloj' = reloj + dt
                /\ UNCHANGED <<locales, usuarios, fase, sesion, current_page,
                               tree_productos, tree_locales, tree_usuarios,
                               locales_usuarios_data>>

(***************************************************************************)
(* REST service: POST /api/movimientos inserts the body as it comes (the   *)
(* store does not enforce foreign keys and tipo is free text).             *)
(***************************************************************************)
ApiProductoIds == 1..MaxProductos
ApiUserIds == 1..MaxUsuarios
ApiTipos == TiposMovimiento \cup {"otro"}
ApiCantidades == {4}
NOTA_API == ""

api_post_movimientos(producto_id, user_id, tipo, cantidad_ml, dt) ==
    /\ seq.movimientos < MaxMovimientos /\ reloj + dt <= MaxReloj
    /\ movimientos' = Insertar(movimientos,
           [producto_id |-> producto_id, user_id |-> user_id, tipo |-> tipo,
            cantidad_ml |-> cantidad_ml, peso_bruto |-> <<>>, notas |-> NOTA_API,
            fecha |-> reloj + dt])
    /\ seq' = [seq EXCEPT !.movimientos = @ + 1]
    /\ procesos' = procesos
    /\ respuesta' = SinRespuesta
    /\ ultimo' = [op |-> "api_post_movimientos", res |-> "201"]
    /\ reloj' = reloj + dt
    /\ UNCHANGED <<locales, usuarios, productos, ui>>

(***************************************************************************)
(* Queries of the desktop application.  Each one runs SELECT statements    *)
(* through fetch_all / fetch_one and fills a widget; respuesta keeps what  *)
(* it showed.  The date filters of filtrar_movimientos and the period of   *)
(* generar_reporte_consumo are left open (every movement is recent).       *)
(***************************************************************************)
FilaRespuesta(p, m, t, e) == [producto |-> p, mov |-> m, total_ml |-> t, estado |-> e]

(* "if total_ml is None ... elif total_ml < (capacidad * 0.2)": the fixed
   fifth of the capacity; 5 * total < capacidad is the same comparison
   without the fraction. *)
estado(prods, movs, p) ==
    IF total_ml(movs, p) = <<>> THEN "Sin datos"
    ELSE IF 5 * total_ml(movs, p)[1] < prods[p].capacidad_ml THEN "Bajo"
    ELSE "OK"

bajos_inventario(prods, movs, ses) ==
    Cardinality({p \in Visibles(prods, ses) : estado(prods, movs, p) = "Bajo"})

(* Rows of the chart: active products in scope that have movements. *)
actualizar_grafico_inventario(prods, movs, ses) ==
    {FilaRespuesta(p, 0, total_ml(movs, p), "") :
        p \in {q \in Visibles(prods, ses) :
                  /\ prods[q].activo = 1
                  /\ total_ml(movs, q) # <<>>
                  /\ prods[q].capacidad_ml # 0}}

(* "FROM movimientos m JOIN productos p ON m.producto_id = p.id JOIN usuarios
   u ON m.user_id = u.id": a movement without its product or its user is
   not listed. *)
MovimientosUnidos(movs, prods, us) ==
    {m \in DOMAIN movs : movs[m].producto_id \in DOMAIN prods /\ movs[m].user_id \in DOMAIN us}

movimientos_recientes(movs, prods, us, ses) ==
    {m \in MovimientosUnidos(movs, prods, us) :
        ses.user_role = "admin" \/ prods[movs[m].producto_id].local_id = ses.local_id}

movimientos_filtrados(movs, prods, us, ses, producto, tipo) ==
    {m \in MovimientosUnidos(movs, prods, us) :
        /\ producto = "Todos" \/ prods[movs[m].producto_id].nombre = producto
        /\ tipo = "Todos" \/ movs[m].tipo = tipo
        /\ ses.user_role = "admin" \/ prods[movs[m].producto_id].local_id = ses.local_id}

FilasMovimientos(movs, S) == {FilaRespuesta(movs[m].producto_id, m, <<>>, "") : m \in S}

(* cargar_productos: the names offered by the product combo boxes. *)
cargar_productos(prods, ses) == {prods[p].nombre : p \in Visibles(prods, ses)}

solo_lectura_con_purga ==
    /\ movimientos' = SinFilas
    /\ UNCHANGED <<locales, usuarios, productos, seq, reloj>>

(* fetch_all and fetch_one execute the statement and never commit. *)
solo_lectura == UNCHANGED <<db, reloj>>

(* InventarioApp.actualizar_inventario as a whole: the list, the summary
   labels and, at its end, the chart. *)
refrescar_inventario ==
    /\ fase = "app" /\ current_page = "inventario"
    /\ solo_lectura
    /\ tree_inventario' = actualizar_inventario(productos, sesion)
    /\ procesos' = procesos
    /\ respuesta' =
         [SinRespuesta EXCEPT
            !.op = "actualizar_inventario",
            !.filas = {FilaRespuesta(p, 0, total_ml(movimientos, p),
                                     estado(productos, movimientos, p)) :
                          p \in Visibles(productos, sesion)},
            !.grafico = actualizar_grafico_inventario(productos, movimientos, sesion),
            !.bajos = bajos_inventario(productos, movimientos, sesion)]
    /\ ultimo' = Nada
    /\ UNCHANGED <<fase, sesion, current_page, tree_productos, tree_locales,
                   tree_usuarios, locales_usuarios_data>>

mostrar_detalles_producto(sel) ==
    /\ fase = "app" /\ current_page = "inventario"
    /\ sel \in FilasInventario
    /\ solo_lectura
    /\ procesos' = procesos
    /\ respuesta' =
         IF ProductoPorNombre(Fila(sel).nombre) = NULL
         THEN respuesta
         ELSE LET id_prod == ProductoPorNombre(Fila(sel).nombre)
              IN  [SinRespuesta EXCEPT
                     !.op = "mostrar_detalles_producto",
                     !.filas = {FilaRespuesta(id_prod, 0, total_ml(movimientos, id_prod), "")}]
    /\ ultimo' = Nada
    /\ UNCHANGED ui

(* show_page('movimientos'), which loads the recent movements. *)
cargar_movimientos_recientes ==
    /\ fase = "app"
    /\ solo_lectura
    /\ current_page' = "movimientos"
    /\ procesos' = procesos
    /\ respuesta' =
         [SinRespuesta EXCEPT
            !.op = "cargar_movimientos_recientes",
            !.filas = FilasMovimientos(movimientos,
                         movimientos_recientes(movimientos, productos, usuarios, sesion))]
    /\ ultimo' = Nada
    /\ UNCHANGED <<fase, sesion, tree_inventario, tree_productos, tree_locales,
                   tree_usuarios, locales_usuarios_data>>

filtrar_movimientos(producto, tipo) ==
    /\ fase = "app" /\ current_page = "movimientos"
    /\ producto \in cargar_productos(productos, sesion) \cup {"Todos"}
    /\ solo_lectura
    /\ procesos' = procesos
    /\ respuesta' =
         [SinRespuesta EXCEPT
            !.op = "filtrar_movimientos",
            !.filas = FilasMovimientos(movimientos,
                         movimientos_filtrados(movimientos, productos, usuarios, sesion,
                                               producto, tipo))]
    /\ ultimo' = Nada
    /\ UNCHANGED ui

(* The product is found by its name; the daily sums are built from the
   movements of that product. *)
generar_reporte_consumo(producto) ==
    /\ fase = "app" /\ current_page = "reportes"
    /\ producto \in cargar_productos(productos, sesion)
    /\ ProductoPorNombre(producto) # NULL
    /\ solo_lectura
    /\ procesos' = procesos
    /\ respuesta' =
         [SinRespuesta EXCEPT
            !.op = "generar_reporte_consumo",
            !.filas = FilasMovimientos(movimientos,
                         MovimientosDe(movimientos, ProductoPorNombre(producto)))]
    /\ ultimo' = Nada
    /\ UNCHANGED ui

(***************************************************************************)
(* REST service, GET handlers and login.                                   *)
(***************************************************************************)
(* "COALESCE((SELECT SUM(CASE WHEN tipo = 'entrada' THEN cantidad_ml ELSE
   -cantidad_ml END) FROM movimientos WHERE producto_id = p.id), 0)" *)
api_total_ml(movs, p) ==
    <<SumaSobre([m \in DOMAIN movs |->
                    IF movs[m].tipo = "entrada" THEN movs[m].cantidad_ml
                    ELSE 0 - movs[m].cantidad_ml],
                MovimientosDe(movs, p))>>

api_get_productos(local_id) ==
    /\ solo_lectura
    /\ procesos' = procesos
    /\ respuesta' =
         [SinRespuesta EXCEPT
            !.op = "api_get_productos",
            !.filas = {FilaRespuesta(p, 0, api_total_ml(movimientos, p), "") :
                          p \in {q \in DOMAIN productos :
                                    /\ productos[q].activo = 1
                                    /\ local_id = NULL \/ productos[q].local_id = local_id}},
            !.codigo = 200]
    /\ UNCHANGED <<ui, ultimo>>

api_get_movimientos(producto_id) ==
    /\ solo_lectura
    /\ procesos' = procesos
    /\ respuesta' =
         [SinRespuesta EXCEPT
            !.op = "api_get_movimientos",
            !.filas = FilasMovimientos(movimientos,
                         {m \in MovimientosUnidos(movimientos, productos, usuarios) :
                             producto_id = NULL \/ movimientos[m].producto_id = producto_id}),
            !.codigo = 200]
    /\ UNCHANGED <<ui, ultimo>>

(* "WHERE username = ? AND password = ? AND activo = 1" *)
api_credenciales(username, password) ==
    {u \in DOMAIN usuarios :
        /\ usuarios[u].username = username
        /\ usuarios[u].password = password
        /\ usuarios[u].activo = 1}

ERROR_LOGIN == "Credenciales invalidas"

api_login(username, password) ==
    /\ solo_lectura
    /\ procesos' = procesos
    /\ respuesta' =
         IF api_credenciales(username, password) # {}
         THEN LET u == Min(api_credenciales(username, password))
              IN  [SinRespuesta EXCEPT
                     !.op = "api_login",
                     !.usuario = [user_id |-> u, user_role |-> usuarios[u].rol,
                                  local_id |-> usuarios[u].local_id],
                     !.codigo = 200]
         ELSE [SinRespuesta EXCEPT !.op = "api_login", !.error = ERROR_LOGIN, !.codigo = 401]
    /\ UNCHANGED <<ui, ultimo>>

(***************************************************************************)
(* Next-state relations: one desktop process and the REST service on one   *)
(* store.  The users' inputs are drawn from the sets of the record E.      *)
(***************************************************************************)
Proceso(E) ==
    \/ main
    \/ \E u \in E.login_username, pw \in E.login_password :
          \E l \in (cargar_locales(locales) \cup {NoSel}) \cap E.login_local[u] :
              validar_login(u, pw, l)
    \/ on_close
    \/ \E pg \in E.paginas : show_page(pg)

Administracion(E) ==
    \/ \E sel \in E.local_sel, n \in E.local_nombre, a \in E.local_activo :
          guardar_local(sel, n, a)
    \/ \E sel \in 0..MaxLocales, c \in BOOLEAN : eliminar_local(sel, c)
    \/ \E sel \in E.usuario_sel, u \in E.usuario_username, pw \in Passwords,
          r \in E.usuario_rol, l \in E.usuario_local, a \in E.usuario_activo :
          guardar_usuario(sel, u, pw, r, l, a)
    \/ \E sel \in 0..MaxUsuarios, c \in BOOLEAN : eliminar_usuario(sel, c)

Inventario(E) ==
    \/ \E sel \in E.producto_sel \cup {NoSel}, n \in E.producto_nombre, d \in E.densidad,
          cap \in E.capacidad, pe \in E.peso_envase, mi \in E.minimo :
          guardar_producto(sel, n, d, cap, pe, mi)
    \/ \E sel \in E.producto_sel, c \in E.confirmacion : eliminar_producto(sel, c)
    \/ \E sel \in E.producto_sel, w \in E.peso, c \in BOOLEAN, dt \in E.lapsos :
          registrar_peso(sel, w, c, dt)
    \/ \E sel \in E.producto_sel, dt \in E.lapsos : agregar_botella_completa(sel, dt)
    \/ \E sel \in E.producto_sel, dt \in E.lapsos : quitar_botella_completa(sel, dt)
    \/ \E p \in E.api_producto, u \in E.api_user, t \in E.api_tipo, q \in ApiCantidades,
          dt \in E.lapsos : api_post_movimientos(p, u, t, q, dt)

(***************************************************************************)
(* SpecInventario: inventory work (weights, bottles, products, the REST    *)
(* POST) by an admin and by an employee, on a store the administrator has  *)
(* prepared with a second location and an employee assigned to it.         *)
(***************************************************************************)
EntradasInventario ==
    [login_username |-> {"admin", "ana"}, login_password |-> Passwords,
     login_local |-> [admin |-> {1}, ana |-> {2}],
     paginas |-> {"inventario", "productos"},
     producto_sel |-> 1..MaxProductos, confirmacion |-> {TRUE},
     producto_nombre |-> NombresProducto,
     densidad |-> {2}, capacidad |-> {4}, peso_envase |-> {2}, minimo |-> {20},
     peso |-> EntradasPeso, lapsos |-> Lapsos,
     api_producto |-> ApiProductoIds, api_user |-> {2}, api_tipo |-> {"ajuste"}]

TiendaPreparada ==
    /\ locales = (1 :> [nombre |-> "Local Principal", activo |-> 1]
                  @@ 2 :> [nombre |-> "Sucursal", activo |-> 1])
    /\ usuarios = (1 :> [username |-> "admin", password |-> "admin123", rol |-> "admin",
                         local_id |-> 1, activo |-> 1]
                   @@ 2 :> [username |-> "ana", password |-> "admin123", rol |-> "empleado",
                            local_id |-> 2, activo |-> 1])
    /\ seq = [locales |-> 2, usuarios |-> 2, productos |-> 0, movimientos |-> 0]
    /\ productos = SinFilas
    /\ movimientos = SinFilas

InitInventario ==
    /\ TiendaPreparada
    /\ reloj = 0
    /\ fase = "login"
    /\ sesion = NoSesion
    /\ current_page = ""
    /\ tree_inventario = {}
    /\ tree_productos = {}
    /\ tree_locales = {}
    /\ tree_usuarios = {}
    /\ locales_usuarios_data = {}
    /\ ultimo = Nada
    /\ respuesta = SinRespuesta
    /\ procesos = SinProcesos

NextInventario == Proceso(EntradasInventario) \/ Inventario(EntradasInventario)

SpecInventario == InitInventario /\ [][NextInventario]_vars

(***************************************************************************)
(* Spec: the whole application from a fresh store, administration pages    *)
(* included.                                                               *)
(***************************************************************************)
EntradasAdmin ==
    [login_username |-> {"admin", "ana"}, login_password |-> Passwords,
     login_local |-> [admin |-> 1..MaxLocales, ana |-> 1..MaxLocales],
     paginas |-> {"inventario", "productos", "admin_locales", "admin_usuarios"},
     producto_sel |-> {1}, confirmacion |-> {TRUE},
     local_sel |-> {NoSel}, local_nombre |-> {"Sucursal", ""}, local_activo |-> {1},
     usuario_sel |-> {NoSel, 2}, usuario_username |-> {"ana"},
     usuario_rol |-> {"admin", "empleado"}, usuario_local |-> {NULL, 2},
     usuario_activo |-> {1},
     producto_nombre |-> {"ron"},
     densidad |-> {2}, capacidad |-> {4}, peso_envase |-> {2}, minimo |-> {20},
     peso |-> {6}, lapsos |-> {0},
     api_producto |-> {1}, api_user |-> {2}, api_tipo |-> {"ajuste"}]

Next == Proceso(EntradasAdmin) \/ Administracion(EntradasAdmin) \/ Inventario(EntradasAdmin)

Spec == Init /\ [][Next]_vars

(***************************************************************************)
(* SpecConsultas: the queries of the desktop application and of the REST   *)
(* service, between the operations that change what they show, on the      *)
(* prepared store.  A product form is a tuple <<densidad, capacidad,        *)
(* peso_envase, minimo>>: one valid form and the forms that differ from it *)
(* in one field.                                                           *)
(***************************************************************************)
EntradasConsultas ==
    [login_username |-> {"admin", "ana"}, login_password |-> Passwords,
     login_local |-> [admin |-> {1}, ana |-> {2}],
     paginas |-> {"inventario", "productos", "reportes"}]

FormulariosProducto ==
    {<<2, 4, 2, 60>>, <<2, 4, 2, NaN>>, <<2, 4, 2, NoNumerico>>, <<2, 4, 2, 0>>,
     <<2, 4, 2, 120>>, <<NoNumerico, 4, 2, 60>>, <<NaN, 4, 2, 60>>, <<0, 4, 2, 60>>,
     <<3, 4, 2, 60>>, <<2, 0, 2, 60>>, <<2, NaN, 2, 60>>, <<2, 4, 0, 60>>,
     <<2, 4, NaN, 60>>}

Escrituras ==
    \/ Proceso(EntradasConsultas)
    \/ \E sel \in 0..MaxProductos, f \in FormulariosProducto :
          guardar_producto(sel, "ron", f[1], f[2], f[3], f[4])
    \/ \E sel \in 1..MaxProductos, w \in {0, 6} : registrar_peso(sel, w, TRUE, 0)
    \/ \E p \in ApiProductoIds, t \in {"salida", "otro"} :
          api_post_movimientos(p, 2, t, 4, 0)

Consultas ==
    \/ refrescar_inventario
    \/ \E sel \in 1..MaxProductos : mostrar_detalles_producto(sel)
    \/ cargar_movimientos_recientes
    \/ \E n \in NombresProducto \cup {"Todos"}, t \in TiposMovimiento \cup {"Todos"} :
          filtrar_movimientos(n, t)
    \/ \E n \in NombresProducto : generar_reporte_consumo(n)
    \/ \E l \in 0..MaxLocales : api_get_productos(l)
    \/ \E p \in 0..MaxProductos : api_get_movimientos(p)

NextConsultas == Escrituras \/ Consultas

SpecConsultas == InitInventario /\ [][NextConsultas]_vars

(***************************************************************************)
(* SpecAcceso: who gets in.  The administrator creates, edits, deactivates *)
(* and deletes users on a fresh store; logins are attempted at the desktop *)
(* and at the REST service with known and unknown names and passwords.     *)
(***************************************************************************)
EntradasAcceso ==
    [login_username |-> {"admin", "ana", "eva"}, login_password |-> {"admin123", "clave"},
     login_local |-> [admin |-> 0..MaxLocales, ana |-> 0..MaxLocales, eva |-> 0..MaxLocales],
     paginas |-> {"inventario", "admin_locales", "admin_usuarios"},
     local_sel |-> {NoSel}, local_nombre |-> {"Sucursal"}, local_activo |-> {1},
     usuario_sel |-> {NoSel, 2}, usuario_username |-> {"ana"},
     usuario_rol |-> Roles, usuario_local |-> {NULL, 2},
     usuario_activo |-> {0, 1}]

NextAcceso ==
    \/ Proceso(EntradasAcceso)
    \/ Administracion(EntradasAcceso)
    \/ \E u \in EntradasAcceso.login_username, pw \in EntradasAcceso.login_password :
          api_login(u, pw)

SpecAcceso == Init /\ [][NextAcceso]_vars

(***************************************************************************)
(* SpecArranque: the store initialization of every start of the program,   *)
(* on stores in which an administrator has renamed or deactivated the     *)
(* admin user, renamed, deactivated or deleted the default location, or    *)
(* created locations of any name.                                          *)
(***************************************************************************)
EntradasArranque ==
    [login_username |-> {"admin", "jefe"}, login_password |-> Passwords,
     login_local |-> [admin |-> 1..MaxLocales, jefe |-> 1..MaxLocales],
     paginas |-> {"admin_locales", "admin_usuarios"},
     local_sel |-> {NoSel, 1}, local_nombre |-> NombresLocal, local_activo |-> {0, 1},
     usuario_sel |-> {1}, usuario_username |-> {"admin", "jefe"},
     usuario_rol |-> {"admin"}, usuario_local |-> {NULL, 1, 2},
     usuario_activo |-> {0, 1}]

NextArranque == Proceso(EntradasArranque) \/ Administracion(EntradasArranque)

SpecArranque == Init /\ [][NextArranque]_vars

(***************************************************************************)
(* Two desktop processes on one store.  A handler of one process runs its  *)
(* statements in order; between two statements of one process the other   *)
(* process may run any of its own.  quitar_botella_completa is the check   *)
(* of the counter shown in the selected row and the SELECT by name, then   *)
(* the UPDATE (committed), then the INSERT (committed), then the refresh   *)
(* of the list.                                                            *)
(***************************************************************************)
FilaDe(i, sel) == CHOOSE f \in procesos[i].arbol : f.fila = sel

abrir(i, user_id, local_id) ==
    /\ procesos[i].pc = "cerrado"
    /\ user_id \in DOMAIN usuarios
    /\ LET ses == [user_id |-> user_id, user_role |-> usuarios[user_id].rol,
                   local_id |-> local_id]
       IN  procesos' = [procesos EXCEPT ![i] =
               [pc |-> "lista", sesion |-> ses,
                arbol |-> actualizar_inventario(productos, ses),
                id_prod |-> NULL, capacidad |-> 0]]
    /\ respuesta' = SinRespuesta
    /\ ultimo' = Nada
    /\ UNCHANGED <<db, reloj, ui>>

cerrar(i) ==
    /\ procesos[i].pc = "lista"
    /\ procesos' = [procesos EXCEPT ![i] = ProcesoCerrado]
    /\ respuesta' = SinRespuesta
    /\ ultimo' = Nada
    /\ UNCHANGED <<db, reloj, ui>>

quitar_botella_completa_leer(i, sel) ==
    /\ procesos[i].pc = "lista"
    /\ sel \in {f.fila : f \in procesos[i].arbol}
    /\ IF sin_botellas(FilaDe(i, sel).botellas)
       THEN /\ ultimo' = [op |-> "quitar_botella_completa", res |-> "sin botellas"]
            /\ UNCHANGED procesos
       ELSE IF ProductoPorNombre(FilaDe(i, sel).nombre) = NULL
       THEN /\ ultimo' = [op |-> "quitar_botella_completa", res |-> "no encontrado"]
            /\ UNCHANGED procesos
       ELSE LET id_prod == ProductoPorNombre(FilaDe(i, sel).nombre)
            IN  /\ procesos' = [procesos EXCEPT ![i].pc = "update",
                                                ![i].id_prod = id_prod,
                                                ![i].capacidad = productos[id_prod].capacidad_ml]
                /\ ultimo' = Nada
    /\ respuesta' = SinRespuesta
    /\ UNCHANGED <<db, reloj, ui>>

quitar_botella_completa_update(i) ==
    /\ procesos[i].pc = "update"
    /\ productos' = SumarBotella(productos, procesos[i].id_prod, -1)
    /\ procesos' = [procesos EXCEPT ![i].pc = "insert"]
    /\ respuesta' = SinRespuesta
    /\ ultimo' = Nada
    /\ UNCHANGED <<locales, usuarios, movimientos, seq, reloj, ui>>

quitar_botella_completa_insert(i, dt) ==
    /\ procesos[i].pc = "insert"
    /\ reloj + dt <= MaxReloj
    /\ movimientos' = Insertar(movimientos,
           [producto_id |-> procesos[i].id_prod, user_id |-> procesos[i].sesion.user_id,
            tipo |-> "salida", cantidad_ml |-> procesos[i].capacidad,
            peso_bruto |-> <<>>, notas |-> NOTA_RETIRADA, fecha |-> reloj + dt])
    /\ seq' = [seq EXCEPT !.movimientos = @ + 1]
    /\ reloj' = reloj + dt
    /\ procesos' = [procesos EXCEPT ![i].pc = "refresco"]
    /\ respuesta' = SinRespuesta
    /\ ultimo' = Nada
    /\ UNCHANGED <<locales, usuarios, productos, ui>>

quitar_botella_completa_refresco(i) ==
    /\ procesos[i].pc = "refresco"
    /\ procesos' = [procesos EXCEPT
           ![i].pc = "lista",
           ![i].arbol = actualizar_inventario(productos, procesos[i].sesion),
           ![i].id_prod = NULL, ![i].capacidad = 0]
    /\ respuesta' = SinRespuesta
    /\ ultimo' = [op |-> "quitar_botella_completa", res |-> "ok"]
    /\ UNCHANGED <<db, reloj, ui>>

(***************************************************************************)
(* SpecConcurrente: both processes on a store that holds two products with *)
(* one full bottle each, added earlier by the administrator.               *)
(***************************************************************************)
BotellaInicial(p, nombre) ==
    [local_id |-> p, nombre |-> nombre, densidad |-> 2, capacidad_ml |-> 4,
     peso_envase |-> 2, activo |-> 1, botellas_completas |-> 1, minimo_inventario |-> 20]

InitConcurrente ==
    /\ locales = (1 :> [nombre |-> "Local Principal", activo |-> 1]
                  @@ 2 :> [nombre |-> "Sucursal", activo |-> 1])
    /\ usuarios = (1 :> [username |-> "admin", password |-> "admin123", rol |-> "admin",
                         local_id |-> 1, activo |-> 1]
                   @@ 2 :> [username |-> "ana", password |-> "admin123", rol |-> "empleado",
                            local_id |-> 2, activo |-> 1])
    /\ productos = (1 :> BotellaInicial(1, "ron") @@ 2 :> BotellaInicial(2, "vodka"))
    /\ movimientos =
         [m \in 1..2 |-> [producto_id |-> m, user_id |-> 1, tipo |-> "entrada",
                          cantidad_ml |-> 4, peso_bruto |-> <<>>, notas |-> NOTA_AGREGADA,
                          fecha |-> 0]]
    /\ seq = [locales |-> 2, usuarios |-> 2, productos |-> 2, movimientos |-> 2]
    /\ reloj = 0
    /\ fase = "cerrado"
    /\ sesion = NoSesion
    /\ current_page = ""
    /\ tree_inventario = {}
    /\ tree_productos = {}
    /\ tree_locales = {}
    /\ tree_usuarios = {}
    /\ locales_usuarios_data = {}
    /\ ultimo = Nada
    /\ respuesta = SinRespuesta
    /\ procesos = SinProcesos

NextConcurrente ==
    \/ \E i \in Procesos, u \in 1..MaxUsuarios : abrir(i, u, usuarios[u].local_id)
    \/ \E i \in Procesos : cerrar(i)
    \/ \E i \in Procesos, sel \in 1..MaxProductos : quitar_botella_completa_leer(i, sel)
    \/ \E i \in Procesos : quitar_botella_completa_update(i)
    \/ \E i \in Procesos, dt \in Lapsos : quitar_botella_completa_insert(i, dt)
    \/ \E i \in Procesos : quitar_botella_completa_refresco(i)

SpecConcurrente == InitConcurrente /\ [][NextConcurrente]_vars

TypeOK ==
    /\ fase \in {"login", "app", "cerrado"}
    /\ reloj \in 0..MaxReloj
    /\ \A m \in DOMAIN movimientos : movimientos[m].fecha \in 0..MaxReloj


(***************************************************************************)
(* Notions the properties below are stated with.                           *)
(***************************************************************************)
Nuevos == DOMAIN movimientos' \ DOMAIN movimientos

Conservados ==
    \A m \in DOMAIN movimientos : m \in DOMAIN movimientos' /\ movimientos'[m] = movimientos[m]

TablasIguales ==
    /\ locales' = locales /\ usuarios' = usuarios
    /\ productos' = productos /\ movimientos' = movimientos

(* The signed sum of section 3 of the specification. *)
ConSigno(movs, m) ==
    IF movs[m].tipo = "salida" THEN 0 - movs[m].cantidad_ml ELSE movs[m].cantidad_ml

nivel_con_signo(movs, p) ==
    SumaSobre([m \in DOMAIN movs |-> ConSigno(movs, m)], MovimientosDe(movs, p))

(* The volume a weight entry stands for, for the product of a row's name. *)
VolumenDe(id_prod, peso) ==
    (peso - productos[id_prod].peso_envase) \div productos[id_prod].densidad

(* C1: for every product that has movements, the level the desktop
   aggregation computes (total_ml) equals the signed sum: +cantidad_ml for
   an entrada, -cantidad_ml for a salida, +cantidad_ml for an ajuste. *)
C1_NivelConSigno ==
    \A p \in DOMAIN productos :
        total_ml(movimientos, p) # <<>>
            => total_ml(movimientos, p)[1] = nivel_con_signo(movimientos, p)

(* C2: when registrar_peso computes a non-negative volume it appends exactly
   one movement, for the product it works on, whose cantidad_ml is that
   volume and whose kind is entrada if the product has no prior movement or
   the volume is strictly greater than the prior movement's cantidad_ml, and
   salida otherwise (equal volumes included).  The prior movement is the row
   the handler's "ORDER BY fecha DESC LIMIT 1" reads. *)
C2_Clasificacion ==
    [][\A sel \in 1..MaxProductos, w \in EntradasPeso \ {NoNumerico}, c \in BOOLEAN,
          dt \in Lapsos :
          (/\ ultimo'.op = "registrar_peso"
           /\ registrar_peso(sel, w, c, dt)
           /\ ProductoPorNombre(Fila(sel).nombre) # NULL
           /\ VolumenDe(ProductoPorNombre(Fila(sel).nombre), w) >= 0)
          => LET id == ProductoPorNombre(Fila(sel).nombre)
                 vol == VolumenDe(id, w)
                 previo == ultimo_ml(movimientos, id)
             IN  /\ Cardinality(Nuevos) = 1
                 /\ Conservados
                 /\ productos' = productos
                 /\ \A m \in Nuevos :
                       /\ movimientos'[m].producto_id = id
                       /\ movimientos'[m].cantidad_ml = vol
                       /\ movimientos'[m].tipo =
                              IF previo = <<>> \/ vol > previo[1] THEN "entrada" ELSE "salida"]_vars

(* A reading equal to the prior quantity has been recorded, as a salida. *)
C2_Testigo ==
    /\ ultimo = [op |-> "registrar_peso", res |-> "ok"]
    /\ \E m1, m2 \in DOMAIN movimientos :
          /\ m1 < m2
          /\ movimientos[m1].producto_id = movimientos[m2].producto_id
          /\ movimientos[m2].notas = NOTA_MANUAL
          /\ movimientos[m2].tipo = "salida"
          /\ movimientos[m2].cantidad_ml = movimientos[m1].cantidad_ml
          /\ movimientos[m1].fecha < movimientos[m2].fecha

(* C3: when registrar_peso computes a negative volume and the user declines
   the confirmation, no movement is created and products and movements (so
   every level and bottle counter) are as before. *)
C3_AjusteDeclinado ==
    [][\A sel \in 1..MaxProductos, w \in EntradasPeso \ {NoNumerico}, dt \in Lapsos :
          (/\ registrar_peso(sel, w, FALSE, dt)
           /\ ProductoPorNombre(Fila(sel).nombre) # NULL
           /\ VolumenDe(ProductoPorNombre(Fila(sel).nombre), w) < 0)
          => TablasIguales]_vars

C3_Testigo == ultimo = [op |-> "registrar_peso", res |-> "cancelado"]


(* C4: when registrar_peso computes a negative volume and the user confirms,
   exactly one movement of kind ajuste is appended whose cantidad_ml is the
   negative volume, whatever the product's prior movements. *)
C4_AjusteConfirmado ==
    [][\A sel \in 1..MaxProductos, w \in EntradasPeso \ {NoNumerico}, dt \in Lapsos :
          (/\ ultimo'.op = "registrar_peso"
           /\ registrar_peso(sel, w, TRUE, dt)
           /\ ProductoPorNombre(Fila(sel).nombre) # NULL
           /\ VolumenDe(ProductoPorNombre(Fila(sel).nombre), w) < 0)
          => LET id == ProductoPorNombre(Fila(sel).nombre)
             IN  /\ Cardinality(Nuevos) = 1
                 /\ Conservados
                 /\ productos' = productos
                 /\ \A m \in Nuevos :
                       /\ movimientos'[m].producto_id = id
                       /\ movimientos'[m].tipo = "ajuste"
                       /\ movimientos'[m].cantidad_ml = VolumenDe(id, w)
                       /\ movimientos'[m].cantidad_ml < 0]_vars

(* An ajuste has been recorded for a product that already had a movement. *)
C4_Testigo ==
    /\ ultimo = [op |-> "registrar_peso", res |-> "ok"]
    /\ \E m1, m2 \in DOMAIN movimientos :
          /\ m1 < m2
          /\ movimientos[m1].producto_id = movimientos[m2].producto_id
          /\ movimientos[m2].notas = NOTA_MANUAL
          /\ movimientos[m2].tipo = "ajuste"
          /\ movimientos[m2].cantidad_ml < 0

(* C5: a weight entry that is not a number is rejected by registrar_peso:
   no movement is created and the store is unchanged. *)
C5_PesoNoNumerico ==
    [][\A sel \in 1..MaxProductos, c \in BOOLEAN, dt \in Lapsos :
          (ultimo'.op = "registrar_peso" /\ registrar_peso(sel, NoNumerico, c, dt))
          => TablasIguales /\ seq' = seq]_vars

C5_Testigo ==
    /\ ultimo = [op |-> "registrar_peso", res |-> "invalido"]
    /\ tree_inventario # {}

(* C6: a successful bottle operation changes the SELECTED product's
   botellas_completas by exactly 1 (+1 agregar, -1 quitar) and appends
   exactly one movement for that product (entrada / salida) whose
   cantidad_ml is the product's capacidad_ml; nothing else changes. *)
EfectoBotella(sel, delta, tipo) ==
    /\ sel \in DOMAIN productos
    /\ productos' = [productos EXCEPT ![sel].botellas_completas = @ + delta]
    /\ locales' = locales /\ usuarios' = usuarios
    /\ Cardinality(Nuevos) = 1
    /\ Conservados
    /\ \A m \in Nuevos :
          /\ movimientos'[m].producto_id = sel
          /\ movimientos'[m].tipo = tipo
          /\ movimientos'[m].cantidad_ml = productos[sel].capacidad_ml

C6_BotellaDelSeleccionado ==
    [][\A sel \in 1..MaxProductos, dt \in Lapsos :
          /\ (/\ ultimo'.op = "agregar_botella_completa" /\ ultimo'.res = "ok"
              /\ agregar_botella_completa(sel, dt))
                 => EfectoBotella(sel, 1, "entrada")
          /\ (/\ ultimo'.op = "quitar_botella_completa" /\ ultimo'.res = "ok"
              /\ quitar_botella_completa(sel, dt))
                 => EfectoBotella(sel, -1, "salida")]_vars

(* C7: quitar_botella_completa on a selected product whose stored
   botellas_completas is 0 is rejected: nothing in the store changes. *)
C7_QuitarSinBotellas ==
    [][\A sel \in 1..MaxProductos, dt \in Lapsos :
          (/\ ultimo'.op = "quitar_botella_completa"
           /\ quitar_botella_completa(sel, dt)
           /\ sel \in DOMAIN productos
           /\ productos[sel].botellas_completas = 0)
          => TablasIguales /\ seq' = seq]_vars

C7_Testigo ==
    /\ ultimo = [op |-> "quitar_botella_completa", res |-> "sin botellas"]
    /\ \E f \in tree_inventario :
          f.fila \in DOMAIN productos /\ productos[f.fila].botellas_completas = 0

(* C8: eliminar_local is rejected, leaving the location row and every other
   row untouched, whenever a product or a user references the location;
   when nothing references it and the user confirms, exactly that location
   row is removed and nothing else changes. *)
Referenciado(id_local) ==
    \/ \E p \in DOMAIN productos : productos[p].local_id = id_local
    \/ \E u \in DOMAIN usuarios : usuarios[u].local_id = id_local

C8_EliminarLocal ==
    [][\A sel \in 1..MaxLocales, c \in BOOLEAN :
          (ultimo'.op = "eliminar_local" /\ eliminar_local(sel, c))
          => IF Referenciado(sel) \/ ~c
             THEN TablasIguales
             ELSE /\ sel \in DOMAIN locales
                  /\ DOMAIN locales' = DOMAIN locales \ {sel}
                  /\ \A l \in DOMAIN locales' : locales'[l] = locales[l]
                  /\ usuarios' = usuarios /\ productos' = productos
                  /\ movimientos' = movimientos]_vars

(* A location has been deleted, and the deletion of a location that holds a
   product but no user has been refused. *)
C8_Testigo ==
    /\ ultimo = [op |-> "eliminar_local", res |-> "tiene productos"]
    /\ \E l \in DOMAIN locales :
          /\ \E p \in DOMAIN productos : productos[p].local_id = l
          /\ \A u \in DOMAIN usuarios : usuarios[u].local_id # l

(* C9: eliminar_usuario applied to the logged-in user's own record is
   rejected with no state change, so the user row of a running session
   exists for as long as the session runs. *)
C9_NoBorrarseASiMismo ==
    [][/\ fase' = "app" => sesion'.user_id \in DOMAIN usuarios'
       /\ \A sel \in 1..MaxUsuarios, c \in BOOLEAN :
             (/\ ultimo'.op = "eliminar_usuario"
              /\ eliminar_usuario(sel, c)
              /\ sel = sesion.user_id)
             => TablasIguales /\ sesion' = sesion /\ fase' = fase]_vars

(* The refusal has happened in a store where another user has been deleted. *)
C9_Testigo ==
    /\ ultimo = [op |-> "eliminar_usuario", res |-> "a si mismo"]
    /\ fase = "app"
    /\ Cardinality(DOMAIN usuarios) < seq.usuarios

(* C10: movements are append-only: no operation changes a field of an
   existing movement, and a movement disappears only in a step of
   eliminar_producto that deletes its product or of eliminar_usuario that
   deletes its user; such a step removes all movements of that product,
   respectively of that user. *)
C10_SoloAnexar ==
    [][/\ \A m \in DOMAIN movimientos :
             \/ m \in DOMAIN movimientos' /\ movimientos'[m] = movimientos[m]
             \/ /\ m \notin DOMAIN movimientos'
                /\ \/ /\ ultimo' = [op |-> "eliminar_producto", res |-> "ok"]
                      /\ eliminar_producto(movimientos[m].producto_id, TRUE)
                   \/ /\ ultimo' = [op |-> "eliminar_usuario", res |-> "ok"]
                      /\ eliminar_usuario(movimientos[m].user_id, TRUE)
       /\ \A sel \in 1..MaxProductos :
             (ultimo' = [op |-> "eliminar_producto", res |-> "ok"]
              /\ eliminar_producto(sel, TRUE))
             => \A m \in DOMAIN movimientos' : movimientos'[m].producto_id # sel
       /\ \A sel \in 1..MaxUsuarios :
             (ultimo' = [op |-> "eliminar_usuario", res |-> "ok"]
              /\ eliminar_usuario(sel, TRUE))
             => \A m \in DOMAIN movimientos' : movimientos'[m].user_id # sel]_vars

(* A user has been deleted together with a movement, another one stays. *)
C10_Testigo ==
    /\ ultimo = [op |-> "eliminar_usuario", res |-> "ok"]
    /\ Cardinality(DOMAIN movimientos) < seq.movimientos
    /\ movimientos # SinFilas

(* C11: every aggregation or listing operation (actualizar_inventario with
   its chart, mostrar_detalles_producto, cargar_movimientos_recientes,
   filtrar_movimientos, generar_reporte_consumo and the GET handlers of the
   REST service) leaves the tables locales, usuarios, productos and
   movimientos unchanged. *)
C11_ConsultasSoloLeen ==
    [][Consultas => TablasIguales /\ seq' = seq]_vars

(* A report has shown movements of a product. *)
C11_Testigo ==
    /\ respuesta.op = "generar_reporte_consumo"
    /\ respuesta.filas # {}
    /\ movimientos # SinFilas

(* C12: in a non-admin session every product and every movement shown by
   the desktop listings and aggregations (actualizar_inventario,
   actualizar_lista_productos, cargar_movimientos_recientes,
   filtrar_movimientos, mostrar_detalles_producto) belongs to the session's
   own location. *)
ListadosDeEscritorio ==
    {"actualizar_inventario", "mostrar_detalles_producto",
     "cargar_movimientos_recientes", "filtrar_movimientos"}

EnLocalDeSesion(p) == p \in DOMAIN productos /\ productos[p].local_id = sesion.local_id

C12_SoloLocalPropio ==
    (fase = "app" /\ sesion.user_role # "admin")
    => /\ \A f \in tree_inventario : EnLocalDeSesion(f.fila)
       /\ \A p \in tree_productos : EnLocalDeSesion(p)
       /\ respuesta.op \in ListadosDeEscritorio
             => \A f \in respuesta.filas \cup respuesta.grafico : EnLocalDeSesion(f.producto)

(* C13, as stated: a login succeeds exactly when a row with the given
   username and password and activo = 1 exists (at the desktop: and the
   chosen location is the user's or the user is an admin), and on success
   the user's role and the user's location are what the login yields.
   Stated for attempts in which a location has been chosen. *)
FilasLogin(username, password) ==
    {u \in DOMAIN usuarios :
        /\ usuarios[u].username = username
        /\ usuarios[u].password = password
        /\ usuarios[u].activo = 1}

ApiLoginCorrecto ==
    \A u \in EntradasAcceso.login_username, pw \in EntradasAcceso.login_password :
        (respuesta'.op = "api_login" /\ api_login(u, pw))
        => /\ respuesta'.codigo = 200 <=> FilasLogin(u, pw) # {}
           /\ respuesta'.codigo = 200
                 => \E x \in FilasLogin(u, pw) :
                       /\ respuesta'.usuario.user_id = x
                       /\ respuesta'.usuario.user_role = usuarios[x].rol
                       /\ respuesta'.usuario.local_id = usuarios[x].local_id
           /\ respuesta'.codigo # 200 => respuesta'.codigo = 401

C13_LoginDevuelveLocalDelUsuario ==
    [][/\ ApiLoginCorrecto
       /\ \A u \in EntradasAcceso.login_username, pw \in EntradasAcceso.login_password,
             l \in 1..MaxLocales :
             (fase = "login" /\ validar_login(u, pw, l))
             => /\ fase' = "app"
                   <=> \E x \in FilasLogin(u, pw) :
                          usuarios[x].local_id = l \/ usuarios[x].rol = "admin"
                /\ fase' = "app"
                      => \E x \in FilasLogin(u, pw) :
                            /\ sesion'.user_id = x
                            /\ sesion'.user_role = usuarios[x].rol
                            /\ sesion'.local_id = usuarios[x].local_id]_vars

(* C13, amended: at the desktop a location must have been chosen, and the
   session's location is the chosen one, which is the user's own location
   unless the user is an admin; the REST login yields the location stored
   in the user's row. *)
C13_LoginDevuelveLocalElegido ==
    [][/\ ApiLoginCorrecto
       /\ \A u \in EntradasAcceso.login_username, pw \in EntradasAcceso.login_password,
             l \in 0..MaxLocales :
             (fase = "login" /\ validar_login(u, pw, l))
             => /\ fase' = "app"
                   <=> /\ l # NoSel
                       /\ \E x \in FilasLogin(u, pw) :
                             usuarios[x].local_id = l \/ usuarios[x].rol = "admin"
                /\ fase' = "app"
                      => \E x \in FilasLogin(u, pw) :
                            /\ sesion'.user_id = x
                            /\ sesion'.user_role = usuarios[x].rol
                            /\ sesion'.local_id = l
                            /\ usuarios[x].local_id = l \/ usuarios[x].rol = "admin"]_vars

(* An admin works in a location that is not the one of the admin's row,
   while an inactive user is in the store. *)
C13_Testigo ==
    /\ fase = "app"
    /\ sesion.user_id \in DOMAIN usuarios
    /\ sesion.local_id # usuarios[sesion.user_id].local_id
    /\ \E u \in DOMAIN usuarios : usuarios[u].activo = 0

(* C14: a failed login has the same outcome whatever its cause (unknown
   username, wrong password, inactive user, at the desktop also a location
   the user has no access to): the desktop shows one message, the REST
   service sends one 401 body, and the store is unchanged. *)
C14_RechazoUniforme ==
    [][/\ \A u \in EntradasAcceso.login_username, pw \in EntradasAcceso.login_password,
             l \in 1..MaxLocales :
             (fase = "login" /\ validar_login(u, pw, l) /\ fase' # "app")
             => /\ ultimo' = [op |-> "validar_login", res |-> "credenciales"]
                /\ TablasIguales
       /\ \A u \in EntradasAcceso.login_username, pw \in EntradasAcceso.login_password :
             (respuesta'.op = "api_login" /\ api_login(u, pw) /\ respuesta'.codigo # 200)
             => /\ respuesta' = [SinRespuesta EXCEPT !.op = "api_login",
                                                     !.error = "Credenciales invalidas",
                                                     !.codigo = 401]
                /\ TablasIguales]_vars

(* A desktop login has been refused in a store that holds an inactive user. *)
C14_Testigo ==
    /\ ultimo = [op |-> "validar_login", res |-> "credenciales"]
    /\ \E u \in DOMAIN usuarios : usuarios[u].activo = 0

(* C15: every stored product has 0 < densidad <= 2, capacidad_ml > 0,
   peso_envase > 0 and 0 < minimo_inventario <= 1 (100 hundredths). *)
C15_ProductosEnRango ==
    \A p \in DOMAIN productos :
        /\ 0 < productos[p].densidad /\ productos[p].densidad <= 2
        /\ productos[p].capacidad_ml > 0
        /\ productos[p].peso_envase > 0
        /\ 0 < productos[p].minimo_inventario /\ productos[p].minimo_inventario <= 100

(* C16: in the inventory listing a product with movements is "Bajo" exactly
   when its level (the signed sum of its movements) is below 20% of its
   capacidad_ml and "OK" otherwise, and the count of low products is the
   number of rows with status "Bajo". *)
C16_BajoAl20 ==
    respuesta.op = "actualizar_inventario"
    => /\ \A f \in respuesta.filas :
             MovimientosDe(movimientos, f.producto) # {}
             => f.estado = IF 5 * nivel_con_signo(movimientos, f.producto)
                                 < productos[f.producto].capacidad_ml
                           THEN "Bajo" ELSE "OK"
       /\ respuesta.bajos = Cardinality({f \in respuesta.filas : f.estado = "Bajo"})

(* C17: a product is "Bajo" exactly when its level is below
   minimo_inventario x capacidad_ml (minimo_inventario in hundredths);
   stated for the products whose listed total is their signed level. *)
C17_BajoSegunMinimo ==
    respuesta.op = "actualizar_inventario"
    => \A f \in respuesta.filas :
          (/\ MovimientosDe(movimientos, f.producto) # {}
           /\ f.total_ml = <<nivel_con_signo(movimientos, f.producto)>>)
          => (f.estado = "Bajo"
                <=> 100 * f.total_ml[1]
                      < productos[f.producto].minimo_inventario
                          * productos[f.producto].capacidad_ml)

(* C18: for every active product the total_ml of GET /api/productos equals
   the level the desktop aggregation computes for it (a product without
   movements counting as level 0 on the desktop). *)
C18_ApiIgualEscritorio ==
    respuesta.op = "api_get_productos"
    => \A f \in respuesta.filas :
          f.total_ml = IF total_ml(movimientos, f.producto) = <<>> THEN <<0>>
                       ELSE total_ml(movimientos, f.producto)

(* C19: every movement's kind is one of entrada, salida, ajuste. *)
C19_TipoValido ==
    \A m \in DOMAIN movimientos : movimientos[m].tipo \in TiposMovimiento

(* C20: every movement references a product row and a user row that exist. *)
C20_SinHuerfanos ==
    \A m \in DOMAIN movimientos :
        /\ movimientos[m].producto_id \in DOMAIN productos
        /\ movimientos[m].user_id \in DOMAIN usuarios

(* C21: after any sequence of desktop operations every product's local_id
   and every user's non-null local_id designates a location row that
   exists. *)
C21_LocalesExisten ==
    /\ \A p \in DOMAIN productos : productos[p].local_id \in DOMAIN locales
    /\ \A u \in DOMAIN usuarios :
          usuarios[u].local_id # NULL => usuarios[u].local_id \in DOMAIN locales

(* C22: store initialization creates the user admin and the location
   "Local Principal" only when absent: a run of it never creates a second
   user named admin nor a second location named Local Principal, leaves
   every existing row unchanged, and a run on a store that holds the admin
   user changes nothing. *)
ConNombre(ls, nombre) == {l \in DOMAIN ls : ls[l].nombre = nombre}
ConUsername(us, username) == {u \in DOMAIN us : us[u].username = username}

C22_ArranqueIdempotente ==
    [][(fase = "cerrado" /\ main)
       => /\ UNCHANGED <<productos, movimientos>>
          /\ \A l \in DOMAIN locales : l \in DOMAIN locales' /\ locales'[l] = locales[l]
          /\ \A u \in DOMAIN usuarios : u \in DOMAIN usuarios' /\ usuarios'[u] = usuarios[u]
          /\ \A u \in DOMAIN usuarios' \ DOMAIN usuarios :
                /\ usuarios'[u].username = "admin"
                /\ ConUsername(usuarios, "admin") = {}
                /\ usuarios'[u].local_id \in ConNombre(locales', "Local Principal")
          /\ \A l \in DOMAIN locales' \ DOMAIN locales :
                /\ locales'[l].nombre = "Local Principal"
                /\ ConNombre(locales, "Local Principal") = {}
          /\ Cardinality(DOMAIN usuarios' \ DOMAIN usuarios) <= 1
          /\ Cardinality(DOMAIN locales' \ DOMAIN locales) <= 1
          /\ Cardinality(ConUsername(usuarios', "admin")) = 1
          /\ ConUsername(usuarios, "admin") # {} => UNCHANGED db]_vars

(* Initialization has added the admin user to a store that held a renamed
   user and the default location. *)
C22_Testigo ==
    /\ fase = "login"
    /\ \E u, v \in DOMAIN usuarios :
          u < v /\ usuarios[u].username = "jefe" /\ usuarios[v].username = "admin"
    /\ Cardinality(ConNombre(locales, "Local Principal")) = 1

(* C23: repeated weight readings overstate the level.  registrar_peso
   stores the absolute volume of each reading and the aggregation adds the
   stored quantities: for a product whose movements are all weight readings
   the level shown by the inventory listing is the sum of the volumes of
   all its readings, so it exceeds the latest reading as soon as the
   earlier ones add up to more than zero. *)
LecturasDe(p) ==
    {m \in MovimientosDe(movimientos, p) : movimientos[m].notas = NOTA_MANUAL}

SoloLecturas(p) ==
    /\ MovimientosDe(movimientos, p) # {}
    /\ LecturasDe(p) = MovimientosDe(movimientos, p)

VolumenLeido(p, m) == VolumenDe(p, movimientos[m].peso_bruto[1])

C23_LecturasSeSuman ==
    respuesta.op = "actualizar_inventario"
    => \A f \in respuesta.filas :
          SoloLecturas(f.producto)
          => /\ \A m \in LecturasDe(f.producto) :
                   movimientos[m].cantidad_ml = VolumenLeido(f.producto, m)
             /\ f.total_ml =
                   <<SumaSobre([m \in DOMAIN movimientos |-> VolumenLeido(f.producto, m)],
                               LecturasDe(f.producto))>>

(* Two readings of one product: the listing shows more than the latest
   reading measured. *)
C23_Testigo ==
    /\ respuesta.op = "actualizar_inventario"
    /\ \E f \in respuesta.filas :
          /\ SoloLecturas(f.producto)
          /\ Cardinality(LecturasDe(f.producto)) >= 2
          /\ f.total_ml[1] > VolumenLeido(f.producto, Max(LecturasDe(f.producto)))

(* C24: the prior quantity registrar_peso reads for a product (the row of
   its "ORDER BY fecha DESC LIMIT 1") is the cantidad_ml of the most
   recently created movement of that product, whatever its kind, also when
   several movements of the product carry the same timestamp. *)
C24_PrevioEsElMasReciente ==
    \A p \in DOMAIN productos :
        MovimientosDe(movimientos, p) # {}
        => ultimo_ml(movimientos, p)
             = <<movimientos[Max(MovimientosDe(movimientos, p))].cantidad_ml>>

(* C25: with two processes writing the same store, the check of the
   counter, the committed UPDATE and the committed INSERT of
   quitar_botella_completa interleave.  At every moment a product's
   botellas_completas is the number of its "agregada" movements minus the
   number of its "retirada" movements minus the number of processes that
   have committed the UPDATE and not yet the INSERT for it: nothing keeps
   the counter at or above 0 or in step with the movements. *)
NotasDe(p, nota) ==
    Cardinality({m \in MovimientosDe(movimientos, p) : movimientos[m].notas = nota})

EntreUpdateEInsert(p) ==
    Cardinality({i \in Procesos : procesos[i].pc = "insert" /\ procesos[i].id_prod = p})

C25_ContadorEnCarrera ==
    \A p \in DOMAIN productos :
        productos[p].botellas_completas
            = NotasDe(p, NOTA_AGREGADA) - NotasDe(p, NOTA_RETIRADA) - EntreUpdateEInsert(p)

(* Both processes checked the one bottle and both decremented: the counter
   is below 0 and the movements of the decrements are not yet present. *)
C25_Testigo ==
    \E p \in DOMAIN productos :
        /\ productos[p].botellas_completas < 0
        /\ EntreUpdateEInsert(p) = 2
        /\ NotasDe(p, NOTA_RETIRADA) = 0

(* C26: in a single desktop session, after any sequence of product
   creation and editing, bottle additions and bottle removals (products
   that share a name included), every product's botellas_completas
   is >= 0. *)
C26_BotellasNoNegativas ==
    \A p \in DOMAIN productos : productos[p].botellas_completas >= 0

(* C27: registrar_peso, agregar_botella_completa and
   quitar_botella_completa read and modify the product of the row selected
   in the inventory list and no other: the movement they insert names the
   selected product, the volume of a reading is computed with the selected
   product's peso_envase and densidad, the quantity of a bottle movement is
   the selected product's capacidad_ml, and no other product row changes,
   also when another visible product has the same name. *)
SoloElSeleccionado(sel) ==
    /\ sel \in DOMAIN productos
    /\ \A m \in Nuevos : movimientos'[m].producto_id = sel
    /\ \A p \in DOMAIN productos \ {sel} : p \in DOMAIN productos' /\ productos'[p] = productos[p]

C27_ProductoSeleccionado ==
    [][/\ \A sel \in 1..MaxProductos, w \in EntradasPeso \ {NoNumerico}, c \in BOOLEAN,
             dt \in Lapsos :
             (/\ ultimo'.op = "registrar_peso" /\ ultimo'.res = "ok"
              /\ registrar_peso(sel, w, c, dt))
             => /\ SoloElSeleccionado(sel)
                /\ \A m \in Nuevos : movimientos'[m].cantidad_ml = VolumenDe(sel, w)
       /\ \A sel \in 1..MaxProductos, dt \in Lapsos :
             (/\ ultimo'.op \in {"agregar_botella_completa", "quitar_botella_completa"}
              /\ ultimo'.res = "ok"
              /\ agregar_botella_completa(sel, dt) \/ quitar_botella_completa(sel, dt))
             => /\ SoloElSeleccionado(sel)
                /\ productos'[sel].botellas_completas # productos[sel].botellas_completas
                /\ \A m \in Nuevos : movimientos'[m].cantidad_ml = productos[sel].capacidad_ml]_vars

(* C28: after any sequence of desktop operations in a single session each
   product's botellas_completas equals the number of its "Botella completa
   agregada" entrada movements minus the number of its "Botella completa
   retirada" salida movements. *)
BotellasSegunMovimientos(p) ==
    Cardinality({m \in MovimientosDe(movimientos, p) :
                    movimientos[m].tipo = "entrada" /\ movimientos[m].notas = NOTA_AGREGADA})
    - Cardinality({m \in MovimientosDe(movimientos, p) :
                    movimientos[m].tipo = "salida" /\ movimientos[m].notas = NOTA_RETIRADA})

C28_ContadorSegunMovimientos ==
    \A p \in DOMAIN productos :
        productos[p].botellas_completas = BotellasSegunMovimientos(p)

(* C29: location and user management is reachable only in a session whose
   user_role is admin: in a gerente or empleado session no step shows an
   administration page, and no step creates, changes or deletes a location
   or a user. *)
C29_AdministracionSoloAdmin ==
    [][(fase = "app" /\ sesion.user_role # "admin")
       => /\ locales' = locales
          /\ usuarios' = usuarios
          /\ current_page' \notin {"admin_locales", "admin_usuarios"}]_vars

(* A gerente works in the application while the store holds the locations
   and users an administrator created. *)
C29_Testigo ==
    /\ fase = "app"
    /\ sesion.user_role = "gerente"
    /\ current_page = "inventario"
    /\ Cardinality(DOMAIN locales) > 1

(* C30: after any sequence of admin operations on users and locations
   (edit, deactivate, delete), whenever the login window is shown some
   login can succeed with admin role: the store holds at least one active
   user with rol = admin and at least one active location to log into. *)
C30_AdminPuedeEntrar ==
    fase = "login"
    => /\ \E u \in DOMAIN usuarios : usuarios[u].rol = "admin" /\ usuarios[u].activo = 1
       /\ cargar_locales(locales) # {}

====
